---- MODULE Spec2Model ----
(***************************************************************************)
(* Device-resident particle storage of pysph (pysph/base/opencl.py):       *)
(* DeviceArray, a resizable device buffer, and DeviceHelper, the store     *)
(* that keeps one DeviceArray per particle property.                       *)
(*                                                                         *)
(* A device array is a sequence of slots; Python index i is TLA+ index     *)
(* i + 1.  Index arguments keep the Python (0-based) values.               *)
(***************************************************************************)
EXTENDS Integers, Sequences, FiniteSets, TLC

(* ---------------------------- bounds ----------------------------------- *)
\* largest logical length of the buffer under test
MaxLen == 3
\* largest size passed to reserve
MaxReserve == 4
\* largest number of particles of the store under test
MaxParticles == 3

\* largest batch handed to add_particles and largest count handed to extend
MaxAdd == MaxParticles - 1
\* longest index sequence handed to extract_particles
MaxIdx == (MaxParticles + 1) \div 2

(* ------------------------ program constants ---------------------------- *)
\* DeviceArray.__init__ allocates 16 slots when asked for 0 elements
InitAlloc == 16
\* content of a slot of cl.array.empty that nothing has written yet
Uninit == -1

\* element values of the buffer under test
Values == {1, 9}

Min(a, b) == IF a < b THEN a ELSE b
Max(a, b) == IF a > b THEN a ELSE b

(* ------------------- Python / pyopencl primitives ---------------------- *)
\* a[:stop], Python slice semantics (stop < 0 counts from the end; -0 is 0)
SliceTo(a, stop) ==
    LET n == Len(a)
        e == IF stop < 0 THEN Max(n + stop, 0) ELSE Min(stop, n)
    IN  SubSeq(a, 1, e)

\* the positions (1-based) selected by a[start:]
SliceFromStart(n, start) ==
    IF start < 0 THEN Max(n + start, 0) + 1 ELSE Min(start, n) + 1

\* cl.array.empty(queue, n, dtype)
empty(n) == [i \in 1..n |-> Uninit]

\* cl.array.take(a, indices)
take(a, indices) == [i \in 1..Len(indices) |-> a[indices[i] + 1]]

(* ----------------------------- DeviceArray ----------------------------- *)
\* a DeviceArray is [data |-> _data, length |-> length]; alloc is the size
\* of _data, which set_data and reserve keep equal to self.alloc
alloc(b) == Len(b.data)

\* self.array, the view _data[:length]
array(b) == SliceTo(b.data, b.length)

set_data(data) == [data |-> data, length |-> Len(data)]

DeviceArray(n) ==
    [set_data(empty(IF n = 0 THEN InitAlloc ELSE n)) EXCEPT !.length = n]

reserve(b, size) ==
    IF size > alloc(b)
    THEN [b EXCEPT !.data = [i \in 1..size |->
                                IF i <= alloc(b) THEN b.data[i] ELSE Uninit]]
    ELSE b

\* resize that sets the length without reserving the room first
resize_no_reserve(b, size) == [b EXCEPT !.length = size]

resize(b, size) == [reserve(b, size) EXCEPT !.length = size]

copy(b) == set_data(array(b))

fill(b, value) ==
    [b EXCEPT !.data = [i \in 1..alloc(b) |->
                           IF i <= b.length THEN value ELSE b.data[i]]]

\* The buffer operations that can raise return [obj |-> object, err |-> e].
Ok(o) == [obj |-> o, err |-> "none"]
Raise(o, e) == [obj |-> o, err |-> e]

\* append that makes room for one more element only
append_one_more(b, value) ==
    LET r == IF b.length >= alloc(b) THEN reserve(b, b.length + 1) ELSE b
    IN  IF r.length >= alloc(r)
        THEN Raise(r, "IndexError")
        ELSE Ok([r EXCEPT !.data[r.length + 1] = value,
                          !.length = r.length + 1])

append(b, value) ==
    LET r == IF b.length >= alloc(b) THEN reserve(b, 2 * b.length) ELSE b
    IN  IF r.length >= alloc(r)
        THEN Raise(r, "IndexError")
        ELSE Ok([r EXCEPT !.data[r.length + 1] = value,
                          !.length = r.length + 1])

extend(b, cl_arr) ==
    LET k == Len(cl_arr)
        r == IF b.length + k > alloc(b) THEN reserve(b, b.length + k) ELSE b
        first == SliceFromStart(alloc(r), 0 - k)
    IN  IF alloc(r) - first + 1 # k
        THEN Raise(r, "ValueError")
        ELSE Ok([r EXCEPT !.data = [i \in 1..alloc(r) |->
                                       IF i >= first
                                       THEN cl_arr[i - first + 1]
                                       ELSE r.data[i]],
                          !.length = r.length + k])

\* if_remove after fill(0) and fill_if_remove_knl: 1 at the given indices
if_remove_mask(n, indices) ==
    [i \in 1..n |-> IF \E j \in 1..Len(indices) : indices[j] + 1 = i
                    THEN 1 ELSE 0]

\* the inclusive prefix sum ("item") of the scan kernel at position i
scan_item(mask, i) == Cardinality({j \in 1..i : mask[j] = 1})

\* remove_knl: new_array starts as a copy of array; every kept element i
\* is written to position i - item
compact(a, mask) ==
    [p \in 1..Len(a) |->
        IF \E i \in 1..Len(a) : mask[i] = 0 /\ i - scan_item(mask, i) = p
        THEN a[CHOOSE i \in 1..Len(a) :
                   mask[i] = 0 /\ i - scan_item(mask, i) = p]
        ELSE a[p]]

\* remove without the check of the number of indices
remove_unchecked(b, indices) ==
    LET mask == if_remove_mask(b.length, indices)
        new_array == compact(array(b), mask)
    IN  Ok(set_data(SliceTo(new_array, 0 - Len(indices))))

remove(b, indices) ==
    IF Len(indices) > b.length
    THEN Raise(b, "ValueError")
    ELSE LET mask == if_remove_mask(b.length, indices)
             new_array == compact(array(b), mask)
         IN  Ok(set_data(SliceTo(new_array, 0 - Len(indices))))

\* align that gathers into the buffer but keeps the old length
align_keep_length(b, indices) ==
    [data |-> take(array(b), indices),
     length |-> Min(b.length, Len(indices))]

align(b, indices) == set_data(take(array(b), indices))

squeeze(b) == set_data(SliceTo(b.data, b.length))

\* copy_values that copies the leading elements instead of gathering
copy_values_leading(b, indices, dest) ==
    [i \in 1..Len(dest) |->
        IF i <= Len(indices)
        THEN array(b)[Min(i, b.length)]
        ELSE dest[i]]

\* dest[:len(indices)] = take(self.array, indices)
copy_values(b, indices, dest) ==
    [i \in 1..Len(dest) |->
        IF i <= Len(indices) THEN take(array(b), indices)[i] ELSE dest[i]]

\* Reading a slot nothing has written yields whatever the device memory
\* holds: every slot that enters the logical range [0, length) while still
\* unwritten takes an arbitrary value of D.
Exposed(b) == {i \in 1..Min(b.length, alloc(b)) : b.data[i] = Uninit}

Resolve(b, D) ==
    {[b EXCEPT !.data = [i \in 1..alloc(b) |->
                            IF i \in Exposed(b) THEN f[i] ELSE b.data[i]]] :
        f \in [Exposed(b) -> D]}

(* ----------------------------- DeviceHelper ---------------------------- *)
\* radix_sort(..., key_bits=2) sorts on the low two bits of the key
KeyBits == 2
\* self.num_real_particles before align_particles has ever set it
NoAttr == -1

\* the tag values in use; 0 marks a real particle
TagValues == 0..3
XValues == {1, 9}
YValues == {5, 6}

\* the element values of a property (what an unwritten slot may turn out to be)
Dom(p) == IF p = "tag" THEN TagValues ELSE IF p = "x" THEN XValues ELSE YValues

\* ParticleArray.default_values of the host container
default_values == [tag |-> 0, x |-> 1, y |-> 5, z |-> 5]

Range(f) == {f[i] : i \in DOMAIN f}

\* a store is [properties, constants (name lists), data (name -> DeviceArray,
\* the dict _data), nrp (num_real_particles)]
\* ParticleArray() with DeviceHelper(result_array): nothing registered yet
EmptyStore ==
    [properties |-> <<>>, constants |-> <<>>, data |-> <<>>, nrp |-> NoAttr]

\* _add_prop_or_const: a buffer of the host array's length holding its values
HostBuffer(values) ==
    [DeviceArray(Len(values)) EXCEPT
        !.data = [i \in 1..Len(@) |-> IF i <= Len(values) THEN values[i] ELSE @[i]]]

\* DeviceHelper.__init__ over a host array pa = [properties, constants, values]
DeviceHelper(pa) ==
    [properties |-> pa.properties,
     constants |-> pa.constants,
     data |-> [n \in Range(pa.properties) \cup Range(pa.constants) |->
                  HostBuffer(pa.values[n])],
     nrp |-> NoAttr]

get_number_of_particles(s) ==
    IF Len(s.properties) > 0
    THEN Len(array(s.data[s.properties[1]]))
    ELSE 0

update_prop(s, name, dev_array) ==
    [s EXCEPT !.data = (name :> dev_array) @@ s.data,
              !.properties = IF name \in Range(s.properties)
                             THEN @ ELSE Append(@, name)]

update_const(s, name, dev_array) ==
    [s EXCEPT !.data = (name :> dev_array) @@ s.data,
              !.constants = IF name \in Range(s.constants)
                            THEN @ ELSE Append(@, name)]

\* an align that gathers the tag property only
store_align_tag_only(s, indices) ==
    [s EXCEPT !.data = [n \in DOMAIN s.data |->
                           IF n = "tag"
                           THEN align(s.data[n], indices)
                           ELSE s.data[n]]]

\* DeviceHelper.align: gather every property by the same indices
store_align(s, indices) ==
    [s EXCEPT !.data = [n \in DOMAIN s.data |->
                           IF n \in Range(s.properties)
                           THEN align(s.data[n], indices)
                           ELSE s.data[n]]]

\* DeviceHelper.resize
store_resize(s, new_size) ==
    [s EXCEPT !.data = [n \in DOMAIN s.data |->
                           IF n \in Range(s.properties)
                           THEN resize(s.data[n], new_size)
                           ELSE s.data[n]]]

\* a sort that is not stable: the indices of one key value come out reversed
Bucket_reversed(indices, keys, v) ==
    LET Test(i) == keys[i + 1] % (2 ^ KeyBits) = v
        b == SelectSeq(indices, Test)
    IN  [i \in 1..Len(b) |-> b[Len(b) + 1 - i]]

\* the indices (in order) whose key has the low KeyBits bits equal to v
Bucket(indices, keys, v) ==
    LET Test(i) == keys[i + 1] % (2 ^ KeyBits) = v
    IN  SelectSeq(indices, Test)

RECURSIVE Buckets(_, _, _)
Buckets(indices, keys, v) ==
    IF v >= 2 ^ KeyBits THEN <<>>
    ELSE Bucket(indices, keys, v) \o Buckets(indices, keys, v + 1)

\* cl.algorithm.RadixSort: the indices stably sorted by their key
radix_sort(indices, keys) == Buckets(indices, keys, 0)

\* cl.array.arange(queue, 0, n, 1)
arange(n) == [i \in 1..n |-> i - 1]

\* a boundary test that forgets tag_array[i-1] == 0: true at every change of tag
boundary_any_change(tag_array, i) ==
    /\ i # 0
    /\ tag_array[i + 1] # tag_array[i]

\* NUM_REAL_PARTICLES_KNL: the condition work-item i (0-based) evaluates
boundary_cond(tag_array, i) ==
    /\ i # 0
    /\ tag_array[i + 1] # tag_array[i]
    /\ tag_array[i] = 0

\* NUM_REAL_PARTICLES_KNL: the work-items i (0-based) that write
\* num_real_particles[0] = i
boundary_writers(tag_array) ==
    {i \in 0..(Len(tag_array) - 1) :
        /\ i # 0
        /\ tag_array[i + 1] # tag_array[i]
        /\ tag_array[i] = 0}

\* the values the 1-element output (zeros at first) can hold after the kernel
num_real_particles_knl(tag_array) ==
    IF boundary_writers(tag_array) = {} THEN {0}
    ELSE boundary_writers(tag_array)

\* align_particles: the set of stores it can leave
align_particles(s) ==
    LET tag_arr == array(s.data["tag"])
        num_particles == get_number_of_particles(s)
        sorted_indices == radix_sort(arange(num_particles), tag_arr)
        t == store_align(s, sorted_indices)
    IN  {[t EXCEPT !.nrp = v] :
            v \in num_real_particles_knl(array(t.data["tag"]))}

\* new_indices after remove_knl: kept index i is written at i - item, the
\* other slots keep what cl.array.empty left there
new_indices_knl(n, mask) ==
    [p \in 1..n |->
        IF \E i \in 1..n : mask[i] = 0 /\ i - scan_item(mask, i) = p
        THEN (CHOOSE i \in 1..n : mask[i] = 0 /\ i - scan_item(mask, i) = p) - 1
        ELSE Uninit]

remove_particles(s, indices) ==
    IF Len(indices) > get_number_of_particles(s)
    THEN {Raise(s, "ValueError")}
    ELSE LET n == get_number_of_particles(s)
             mask == if_remove_mask(n, indices)
             new_indices == new_indices_knl(n, mask)
             t == store_align(s, SliceTo(new_indices, 0 - Len(indices)))
         IN  IF Len(indices) > 0
             THEN {Ok(u) : u \in align_particles(t)}
             ELSE {Ok(t)}

\* REMOVE_INDICES_KNL: the matching indices, in any order the atomic
\* increments of head[0] can hand out the slots
RECURSIVE Orders(_)
Orders(S) ==
    IF S = {} THEN {<<>>}
    ELSE UNION {{<<x>> \o o : o \in Orders(S \ {x})} : x \in S}

\* an increment of head[0] that is not atomic: the update is lost, so the
\* next work-item reads the same value
inc_lost(head) == [old |-> head, new |-> head]

\* atomic_inc(&head[0]): returns the old value and adds one, in one step
atomic_inc(head) == [old |-> head, new |-> head + 1]

remove_indices_knl(tag_array, tag) ==
    Orders({i \in 0..(Len(tag_array) - 1) : tag_array[i + 1] = tag})

remove_tagged_particles(s, tag) ==
    LET tag_array == array(s.data["tag"])
        num_indices == Cardinality({i \in 1..Len(tag_array) : tag_array[i] = tag})
    IN  IF num_indices = 0
        THEN {Ok(s)}
        ELSE UNION {remove_particles(s, indices) :
                        indices \in remove_indices_knl(tag_array, tag)}

\* a fill that ignores start and overwrites the whole logical array
fill_from_beginning(b, start, value) ==
    [b EXCEPT !.data = [i \in 1..alloc(b) |->
        IF i <= b.length THEN value ELSE b.data[i]]]

\* arr.array[start:] = value
fill_from(b, start, value) ==
    [b EXCEPT !.data = [i \in 1..alloc(b) |->
        IF i >= SliceFromStart(b.length, start) /\ i <= b.length
        THEN value ELSE b.data[i]]]

\* arr.array[start:] = source (an array); raises when the sizes differ
copy_from(b, start, source) ==
    LET first == SliceFromStart(b.length, start)
    IN  IF b.length - first + 1 # Len(source)
        THEN Raise(b, "ValueError")
        ELSE Ok([b EXCEPT !.data = [i \in 1..alloc(b) |->
                    IF i >= first /\ i <= b.length
                    THEN source[i - first + 1] ELSE b.data[i]]])

\* every way the unwritten slots inside the logical range of the listed
\* buffers can turn out
RECURSIVE ResolveNames(_, _)
ResolveNames(s, names) ==
    IF names = <<>> THEN {s}
    ELSE UNION {ResolveNames([s EXCEPT !.data[Head(names)] = b], Tail(names)) :
                   b \in Resolve(s.data[Head(names)], Dom(Head(names)))}

ResolveStore(s) == ResolveNames(s, s.properties)

\* the loop of add_particles over self.properties, from the i-th on;
\* particle_props = [names |-> keyword order, vals |-> name -> new values]
RECURSIVE add_particles_loop(_, _, _, _, _)
add_particles_loop(s, particle_props, i, old_num_particles, new_num_particles) ==
    IF i > Len(s.properties) THEN Ok(s)
    ELSE LET prop == s.properties[i]
             arr_ == s.data[prop]
         IN  IF prop \in Range(particle_props.names)
             THEN LET r == extend(arr_, particle_props.vals[prop])
                  IN  IF r.err # "none"
                      THEN Raise([s EXCEPT !.data[prop] = r.obj], r.err)
                      ELSE add_particles_loop(
                               update_prop(s, prop, r.obj), particle_props,
                               i + 1, old_num_particles, new_num_particles)
             ELSE add_particles_loop(
                      update_prop(s, prop,
                          fill_from(resize(arr_, new_num_particles),
                                    old_num_particles, default_values[prop])),
                      particle_props, i + 1,
                      old_num_particles, new_num_particles)

\* add_particles that looks for unregistered names only after its loop ran
add_particles_late_check(s, particle_props) ==
    IF Len(particle_props.names) = 0
    THEN {Ok(s)}
    ELSE LET num_extra_particles ==
                 Len(particle_props.vals[particle_props.names[1]])
             old_num_particles == get_number_of_particles(s)
             new_num_particles == num_extra_particles + old_num_particles
             r == add_particles_loop(s, particle_props, 1,
                                     old_num_particles, new_num_particles)
         IN  IF r.err # "none"
             THEN {Raise(t, r.err) : t \in ResolveStore(r.obj)}
             ELSE IF \E i \in 1..Len(particle_props.names) :
                         particle_props.names[i] \notin Range(s.properties)
             THEN {Raise(t, "AttributeError") : t \in ResolveStore(r.obj)}
             ELSE IF num_extra_particles > 0
             THEN {Ok(u) : u \in UNION {align_particles(t) :
                                           t \in ResolveStore(r.obj)}}
             ELSE {Ok(t) : t \in ResolveStore(r.obj)}

add_particles(s, particle_props) ==
    IF Len(particle_props.names) = 0
    THEN {Ok(s)}
    ELSE IF \E i \in 1..Len(particle_props.names) :
                particle_props.names[i] \notin Range(s.properties)
    THEN {Raise(s, "AttributeError")}
    ELSE LET num_extra_particles ==
                 Len(particle_props.vals[particle_props.names[1]])
             old_num_particles == get_number_of_particles(s)
             new_num_particles == num_extra_particles + old_num_particles
             r == add_particles_loop(s, particle_props, 1,
                                     old_num_particles, new_num_particles)
         IN  IF r.err # "none"
             THEN {Raise(t, r.err) : t \in ResolveStore(r.obj)}
             ELSE IF num_extra_particles > 0
             THEN {Ok(u) : u \in UNION {align_particles(t) :
                                           t \in ResolveStore(r.obj)}}
             ELSE {Ok(t) : t \in ResolveStore(r.obj)}

\* the loop of DeviceHelper.extend over self.properties, from the i-th on
RECURSIVE store_extend_loop(_, _, _, _)
store_extend_loop(s, i, old_size, new_size) ==
    IF i > Len(s.properties) THEN s
    ELSE LET prop == s.properties[i]
         IN  store_extend_loop(
                 update_prop(s, prop,
                     fill_from(resize(s.data[prop], new_size),
                               old_size, default_values[prop])),
                 i + 1, old_size, new_size)

\* extend that leaves its loop after the first property
store_extend_first_only(s, num_particles) ==
    IF num_particles <= 0 \/ Len(s.properties) = 0 THEN s
    ELSE update_prop(s, s.properties[1],
             fill_from(resize(s.data[s.properties[1]],
                              get_number_of_particles(s) + num_particles),
                       get_number_of_particles(s),
                       default_values[s.properties[1]]))

\* DeviceHelper.extend(num_particles)
store_extend(s, num_particles) ==
    IF num_particles <= 0 THEN s
    ELSE store_extend_loop(s, 1, get_number_of_particles(s),
                           get_number_of_particles(s) + num_particles)

\* the loop of append_parray over parray.gpu.properties, from the i-th on
RECURSIVE append_parray_props(_, _, _, _, _)
append_parray_props(s, other, i, old_num_particles, new_num_particles) ==
    IF i > Len(other.properties) THEN Ok(s)
    ELSE LET prop_name == other.properties[i]
             source == array(other.data[prop_name])
         IN  IF prop_name \in Range(s.properties)
             THEN LET r == copy_from(s.data[prop_name], old_num_particles, source)
                  IN  IF r.err # "none" THEN Raise(s, r.err)
                      ELSE append_parray_props(
                               [s EXCEPT !.data[prop_name] = r.obj], other,
                               i + 1, old_num_particles, new_num_particles)
             ELSE IF prop_name \notin DOMAIN s.data
             THEN Raise(s, "KeyError")
             ELSE LET created == fill(DeviceArray(new_num_particles),
                                      default_values[prop_name])
                      r == copy_from(created, old_num_particles, source)
                  IN  IF r.err # "none"
                      THEN Raise(update_prop(s, prop_name, created), r.err)
                      ELSE append_parray_props(
                               update_prop(s, prop_name, r.obj), other,
                               i + 1, old_num_particles, new_num_particles)

\* the loop of append_parray over parray.gpu.constants, from the i-th on
RECURSIVE append_parray_consts(_, _, _)
append_parray_consts(s, other, i) ==
    IF i > Len(other.constants) THEN s
    ELSE LET const == other.constants[i]
         IN  append_parray_consts(
                 IF const \notin Range(s.constants)
                 THEN update_const(s, const, copy(other.data[const]))
                 ELSE s,
                 other, i + 1)

\* append_parray(parray), other = parray.gpu
append_parray(s, other) ==
    IF get_number_of_particles(other) = 0
    THEN {Ok(s)}
    ELSE LET num_extra_particles == get_number_of_particles(other)
             old_num_particles == get_number_of_particles(s)
             new_num_particles == num_extra_particles + old_num_particles
             r == append_parray_props(store_extend(s, num_extra_particles),
                                      other, 1,
                                      old_num_particles, new_num_particles)
         IN  IF r.err # "none"
             THEN {r}
             ELSE {Ok(u) : u \in align_particles(
                                     append_parray_consts(r.obj, other, 1))}

\* the loop of extract_particles over prop_names, from the i-th on
RECURSIVE extract_props(_, _, _, _, _)
extract_props(s, result, prop_names, i, indices) ==
    IF i > Len(prop_names) THEN result
    ELSE LET src_arr == s.data[prop_names[i]]
             dst_arr == DeviceArray(Len(indices))
             filled == [dst_arr EXCEPT
                           !.data = copy_values(src_arr, indices, array(dst_arr))]
         IN  extract_props(s, update_prop(result, prop_names[i], filled),
                           prop_names, i + 1, indices)

\* a buffer object of a returned store that is the source's own buffer, not
\* a new one: what a store would hold had the buffer been handed over
\* without copy()
SharedWithSource(name) == [ref |-> name]

IsShared(b) == "ref" \in DOMAIN b

\* the loop over self.constants handing the source's own buffers to the result
RECURSIVE extract_consts_shared(_, _, _)
extract_consts_shared(s, result, i) ==
    IF i > Len(s.constants) THEN result
    ELSE extract_consts_shared(
             s, update_const(result, s.constants[i],
                             SharedWithSource(s.constants[i])),
             i + 1)

\* the loop of extract_particles over self.constants, from the i-th on
RECURSIVE extract_consts(_, _, _)
extract_consts(s, result, i) ==
    IF i > Len(s.constants) THEN result
    ELSE extract_consts(
             s, update_const(result, s.constants[i], copy(s.data[s.constants[i]])),
             i + 1)

\* extract_particles(indices, props=None): the stores it can return
extract_particles(s, indices) ==
    IF Len(indices) = 0
    THEN {EmptyStore}
    ELSE align_particles(
             extract_consts(s,
                 extract_props(s, EmptyStore, s.properties, 1, indices), 1))

\* extract_particles(indices, props) with props given: the outcomes; the
\* re-partition of the result raises KeyError when props leaves out tag
extract_particles_props(s, indices, prop_names) ==
    IF Len(indices) = 0
    THEN {Ok(EmptyStore)}
    ELSE LET result == extract_consts(s,
                           extract_props(s, EmptyStore, prop_names, 1, indices),
                           1)
         IN  IF "tag" \notin DOMAIN result.data
             THEN {Raise(result, "KeyError")}
             ELSE {Ok(t) : t \in align_particles(result)}

(* --------------------- input sets of the buffer calls ------------------ *)
SeqsUpTo(S, n) == UNION {[1..k -> S] : k \in 0..n}

\* the ascending index array of a set of 0-based indices
RECURSIVE AscSeq(_)
AscSeq(S) ==
    IF S = {} THEN <<>>
    ELSE LET m == CHOOSE x \in S : \A y \in S : x <= y
         IN  <<m>> \o AscSeq(S \ {m})

VARIABLES
    arr,      \* the DeviceArray under test
    arr0,     \* the same buffer before the last call
    call,     \* the last call on it: op, arguments, raised error
    ret,      \* the value returned by the last call (copy), else <<>>
    gpu,      \* the DeviceHelper under test
    gpu0,     \* the same store before the last call
    scall,    \* the last call on the store: op, arguments, raised error
    res,      \* the store returned by the last call (extract_particles), else <<>>
    knl       \* the kernel in flight (remove_indices or
              \* get_num_real_particles), else NoKernel

avars == <<arr, arr0, call, ret>>
svars == <<gpu, gpu0, scall, res>>
vars == <<arr, arr0, call, ret, gpu, gpu0, scall, res, knl>>

\* the state of one launch of the remove_indices kernel: its arguments
\* tag_array, tag, indices (count slots) and head[0]; per work-item (1-based
\* position i stands for global id i - 1) where it is (pc) and the slot
\* atomic_inc handed to it; writes counts the stores into each slot and oob
\* records a store outside indices
NoKernel ==
    [tag_array |-> <<>>, tag |-> 0, count |-> 0, head |-> 0,
     indices |-> <<>>, pc |-> <<>>, slot |-> <<>>, writes |-> <<>>,
     oob |-> FALSE]

NoCall == [op |-> "init", indices |-> <<>>, values |-> <<>>, size |-> 0,
           err |-> "none"]

CallRec(op, indices, values, size, err) ==
    [op |-> op, indices |-> indices, values |-> values, size |-> size,
     err |-> err]

\* a buffer constructed with any length; the store is not used
ArrayInit ==
    /\ \E n \in 0..MaxLen : arr \in Resolve(DeviceArray(n), Values)
    /\ arr0 = arr
    /\ call = NoCall
    /\ ret = <<>>
    /\ knl = NoKernel
    /\ gpu = [properties |-> <<>>, constants |-> <<>>, data |-> <<>>,
              nrp |-> NoAttr]
    /\ gpu0 = gpu
    /\ scall = [op |-> "init", indices |-> <<>>, tag |-> 0,
                props |-> [names |-> <<>>, vals |-> <<>>], count |-> 0,
                other |-> gpu, err |-> "none"]
    /\ res = <<>>

ArrAppend ==
    /\ call.op = "init"
    /\ \E v \in Values :
           /\ arr.length < MaxLen
           /\ LET r == append(arr, v)
              IN  /\ arr' = r.obj
                  /\ call' = CallRec("append", <<>>, <<v>>, 0, r.err)
           /\ arr0' = arr
           /\ ret' = <<>>
           /\ UNCHANGED <<svars, knl>>

ArrExtend ==
    /\ call.op = "init"
    /\ \E vals \in SeqsUpTo(Values, MaxLen) :
           /\ arr.length + Len(vals) <= MaxLen
           /\ LET r == extend(arr, vals)
              IN  /\ arr' \in Resolve(r.obj, Values)
                  /\ call' = CallRec("extend", <<>>, vals, 0, r.err)
           /\ arr0' = arr
           /\ ret' = <<>>
           /\ UNCHANGED <<svars, knl>>

ArrResize ==
    /\ call.op = "init"
    /\ \E size \in 0..MaxLen :
           /\ arr' \in Resolve(resize(arr, size), Values)
           /\ call' = CallRec("resize", <<>>, <<>>, size, "none")
           /\ arr0' = arr
           /\ ret' = <<>>
           /\ UNCHANGED <<svars, knl>>

ArrReserve ==
    /\ call.op = "init"
    /\ \E size \in 0..MaxReserve :
           /\ arr' = reserve(arr, size)
           /\ call' = CallRec("reserve", <<>>, <<>>, size, "none")
           /\ arr0' = arr
           /\ ret' = <<>>
           /\ UNCHANGED <<svars, knl>>

ArrFill ==
    /\ call.op = "init"
    /\ \E v \in Values :
           /\ arr' = fill(arr, v)
           /\ call' = CallRec("fill", <<>>, <<v>>, 0, "none")
           /\ arr0' = arr
           /\ ret' = <<>>
           /\ UNCHANGED <<svars, knl>>

\* remove with a set of distinct in-range indices, or with one index too many
ArrRemove ==
    /\ call.op = "init"
    /\ \E indices \in {AscSeq(R) : R \in SUBSET (0..(arr.length - 1))}
                        \cup {[i \in 1..(arr.length + 1) |-> 0]} :
           /\ LET r == remove(arr, indices)
              IN  /\ arr' = r.obj
                  /\ call' = CallRec("remove", indices, <<>>, 0, r.err)
           /\ arr0' = arr
           /\ ret' = <<>>
           /\ UNCHANGED <<svars, knl>>

ArrAlign ==
    /\ call.op = "init"
    /\ \E indices \in SeqsUpTo(0..(arr.length - 1), MaxLen) :
           /\ arr' = align(arr, indices)
           /\ call' = CallRec("align", indices, <<>>, 0, "none")
           /\ arr0' = arr
           /\ ret' = <<>>
           /\ UNCHANGED <<svars, knl>>

ArrCopy ==
    /\ call.op = "init"
    /\ ret' = copy(arr)
    /\ call' = CallRec("copy", <<>>, <<>>, 0, "none")
    /\ arr0' = arr
    /\ arr' = arr
    /\ UNCHANGED <<svars, knl>>

ArrSqueeze ==
    /\ call.op = "init"
    /\ arr' = squeeze(arr)
    /\ call' = CallRec("squeeze", <<>>, <<>>, 0, "none")
    /\ arr0' = arr
    /\ ret' = <<>>
    /\ UNCHANGED <<svars, knl>>

\* the caller takes the result; the record of the finished call is dropped
\* and the next call can be made
ArrReturn ==
    /\ call.op # "init"
    /\ arr' = arr
    /\ arr0' = arr
    /\ call' = NoCall
    /\ ret' = <<>>
    /\ UNCHANGED <<svars, knl>>

ArrayNext ==
    \/ ArrAppend \/ ArrExtend \/ ArrResize \/ ArrReserve \/ ArrFill
    \/ ArrRemove \/ ArrAlign \/ ArrCopy \/ ArrSqueeze \/ ArrReturn

(* ------------------------- the store under test ------------------------ *)
\* the host arrays a store is constructed from: n particles with any tags
\* and x values, y at its default, and one constant c
HostArrays ==
    {[properties |-> <<"tag", "x", "y">>, constants |-> <<"c">>,
      values |-> [tag |-> t, x |-> xs,
                  y |-> [i \in 1..Len(t) |-> default_values["y"]],
                  c |-> <<3>>]] :
        t \in SeqsUpTo(TagValues, MaxParticles),
        xs \in SeqsUpTo(XValues, MaxParticles)}

\* the other particle arrays handed to append_parray
OtherArrays ==
    {[properties |-> <<"tag", "x", "y">>, constants |-> <<"c">>,
      values |-> [tag |-> <<>>, x |-> <<>>, y |-> <<>>, c |-> <<3>>]],
     [properties |-> <<"tag", "x", "y">>, constants |-> <<"c">>,
      values |-> [tag |-> <<0>>, x |-> <<9>>, y |-> <<6>>, c |-> <<4>>]],
     [properties |-> <<"tag", "x", "y">>, constants |-> <<"c", "d">>,
      values |-> [tag |-> <<2, 0>>, x |-> <<9, 1>>, y |-> <<6, 6>>,
                  c |-> <<4>>, d |-> <<8>>]],
     [properties |-> <<"x", "tag">>, constants |-> <<>>,
      values |-> [tag |-> <<1>>, x |-> <<9>>]],
     [properties |-> <<"tag", "x", "z">>, constants |-> <<>>,
      values |-> [tag |-> <<0>>, x |-> <<9>>, z |-> <<6>>]]}

\* the batches handed to add_particles: x alone, tag and x, an unregistered
\* name z next to x, and the empty batch
Batches ==
    {[names |-> <<"x">>, vals |-> [x |-> xs]] :
        xs \in SeqsUpTo(XValues, MaxAdd)}
    \cup {[names |-> <<"tag", "x">>,
           vals |-> [tag |-> t, x |-> [i \in 1..Len(t) |-> 9]]] :
        t \in SeqsUpTo({0, 2}, MaxAdd)}
    \cup {[names |-> <<"x", "z">>, vals |-> [x |-> <<9>>, z |-> <<6>>]],
          [names |-> <<>>, vals |-> <<>>]}

NoBatch == [names |-> <<>>, vals |-> <<>>]

SCallRec(op, indices, tag, props, count, other, err) ==
    [op |-> op, indices |-> indices, tag |-> tag, props |-> props,
     count |-> count, other |-> other, err |-> err]

NoSCall == SCallRec("init", <<>>, 0, NoBatch, 0, EmptyStore, "none")

\* a store constructed over any host array; the lone buffer is not used
StoreInit ==
    /\ \E pa \in HostArrays :
           /\ Len(pa.values["tag"]) = Len(pa.values["x"])
           /\ gpu = DeviceHelper(pa)
    /\ gpu0 = gpu
    /\ scall = NoSCall
    /\ res = <<>>
    /\ arr = DeviceArray(0)
    /\ arr0 = arr
    /\ call = NoCall
    /\ ret = <<>>
    /\ knl = NoKernel

BatchSize(pp) == IF Len(pp.names) = 0 THEN 0 ELSE Len(pp.vals[pp.names[1]])

AddParticles ==
    /\ scall.op = "init"
    /\ \E pp \in Batches :
           /\ get_number_of_particles(gpu) + BatchSize(pp) <= MaxParticles
           /\ \E r \in add_particles(gpu, pp) :
                  /\ gpu' = r.obj
                  /\ scall' = SCallRec("add_particles", <<>>, 0, pp, 0,
                                       EmptyStore, r.err)
           /\ gpu0' = gpu
           /\ res' = <<>>
           /\ UNCHANGED <<avars, knl>>

\* remove_particles with a set of distinct in-range indices, or with one
\* index too many
RemoveParticles ==
    /\ scall.op = "init"
    /\ \E indices \in {AscSeq(R) :
                          R \in SUBSET (0..(get_number_of_particles(gpu) - 1))}
                        \cup {[i \in 1..(get_number_of_particles(gpu) + 1) |-> 0]} :
           /\ \E r \in remove_particles(gpu, indices) :
                  /\ gpu' = r.obj
                  /\ scall' = SCallRec("remove_particles", indices, 0, NoBatch,
                                       0, EmptyStore, r.err)
           /\ gpu0' = gpu
           /\ res' = <<>>
           /\ UNCHANGED <<avars, knl>>

RemoveTaggedParticles ==
    /\ scall.op = "init"
    /\ \E tag \in TagValues :
           /\ \E r \in remove_tagged_particles(gpu, tag) :
                  /\ gpu' = r.obj
                  /\ scall' = SCallRec("remove_tagged_particles", <<>>, tag,
                                       NoBatch, 0, EmptyStore, r.err)
           /\ gpu0' = gpu
           /\ res' = <<>>
           /\ UNCHANGED <<avars, knl>>

StoreExtend ==
    /\ scall.op = "init"
    /\ \E count \in (0 - 1)..MaxAdd :
           /\ get_number_of_particles(gpu) + count <= MaxParticles
           /\ gpu' \in ResolveStore(store_extend(gpu, count))
           /\ scall' = SCallRec("extend", <<>>, 0, NoBatch, count, EmptyStore,
                                "none")
           /\ gpu0' = gpu
           /\ res' = <<>>
           /\ UNCHANGED <<avars, knl>>

AppendParray ==
    /\ scall.op = "init"
    /\ \E pa \in OtherArrays :
           LET other == DeviceHelper(pa)
           IN  /\ get_number_of_particles(gpu) + get_number_of_particles(other)
                      <= MaxParticles
               /\ \E r \in append_parray(gpu, other) :
                      /\ gpu' = r.obj
                      /\ scall' = SCallRec("append_parray", <<>>, 0, NoBatch, 0,
                                           other, r.err)
               /\ gpu0' = gpu
               /\ res' = <<>>
               /\ UNCHANGED <<avars, knl>>

ExtractParticles ==
    /\ scall.op = "init"
    /\ \E indices \in SeqsUpTo(0..(get_number_of_particles(gpu) - 1), MaxIdx) :
           /\ res' \in extract_particles(gpu, indices)
           /\ scall' = SCallRec("extract_particles", indices, 0, NoBatch, 0,
                                EmptyStore, "none")
           /\ gpu0' = gpu
           /\ gpu' = gpu
           /\ UNCHANGED <<avars, knl>>

AlignParticles ==
    /\ scall.op = "init"
    /\ gpu' \in align_particles(gpu)
    /\ scall' = SCallRec("align_particles", <<>>, 0, NoBatch, 0, EmptyStore,
                         "none")
    /\ gpu0' = gpu
    /\ res' = <<>>
    /\ UNCHANGED <<avars, knl>>

\* DeviceArray.remove called on the buffer of one property of the store with
\* one index more than the buffer has elements
PropertyRemove ==
    /\ scall.op = "init"
    /\ \E p \in Range(gpu.properties) :
           LET indices == [i \in 1..(gpu.data[p].length + 1) |-> 0]
               r == remove(gpu.data[p], indices)
           IN  /\ gpu' = [gpu EXCEPT !.data[p] = r.obj]
               /\ scall' = SCallRec("remove", indices, 0,
                                    [names |-> <<p>>, vals |-> <<>>], 0,
                                    EmptyStore, r.err)
    /\ gpu0' = gpu
    /\ res' = <<>>
    /\ UNCHANGED <<avars, knl>>

\* align_particles() called again right after align_particles(), nothing in
\* between
AlignParticlesAgain ==
    /\ scall.op = "align_particles"
    /\ gpu' \in align_particles(gpu)
    /\ scall' = SCallRec("align_particles_again", <<>>, 0, NoBatch, 0,
                         EmptyStore, "none")
    /\ gpu0' = gpu
    /\ res' = <<>>
    /\ UNCHANGED <<avars, knl>>

\* the caller takes the result; the record of the finished call is dropped
\* and the next call can be made
StoreReturn ==
    /\ scall.op # "init"
    /\ gpu' = gpu
    /\ gpu0' = gpu
    /\ scall' = NoSCall
    /\ res' = <<>>
    /\ UNCHANGED <<avars, knl>>

StoreNext ==
    \/ AddParticles \/ RemoveParticles \/ RemoveTaggedParticles
    \/ StoreExtend \/ AppendParray \/ ExtractParticles \/ AlignParticles
    \/ AlignParticlesAgain \/ PropertyRemove
    \/ StoreReturn

\* the DeviceArray calls on one buffer
SpecArray == ArrayInit /\ [][ArrayNext]_vars

\* the DeviceHelper calls on one store
Spec == StoreInit /\ [][StoreNext]_vars

\* the property lists handed to extract_particles as props
PropLists == {<<"tag", "x", "y">>, <<"x", "tag">>, <<"x">>}

\* the value a caller later writes over a buffer of the returned store
FillValue == 7

\* extract_particles(indices, props); a call that raised returns no store
ExtractProps ==
    /\ scall.op = "init"
    /\ \E indices \in SeqsUpTo(0..(get_number_of_particles(gpu) - 1), MaxIdx),
          props \in PropLists :
           \E r \in extract_particles_props(gpu, indices, props) :
               /\ res' = IF r.err = "none" THEN r.obj ELSE <<>>
               /\ scall' = SCallRec("extract_particles", indices, 0,
                                    [names |-> props, vals |-> <<>>], 0,
                                    EmptyStore, r.err)
    /\ gpu0' = gpu
    /\ gpu' = gpu
    /\ UNCHANGED <<avars, knl>>

\* the caller fills one buffer of the store extract_particles returned; the
\* write lands in the source when that buffer object is the source's own.
\* gpu0 stays the source as it was before extract_particles.
ResultFill ==
    /\ scall.op = "extract_particles"
    /\ scall.err = "none"
    /\ \E name \in DOMAIN res.data :
           IF IsShared(res.data[name])
           THEN /\ gpu' = [gpu EXCEPT !.data[res.data[name].ref] =
                                          fill(@, FillValue)]
                /\ res' = res
           ELSE /\ res' = [res EXCEPT !.data[name] = fill(@, FillValue)]
                /\ gpu' = gpu
    /\ scall' = [scall EXCEPT !.op = "result_fill"]
    /\ gpu0' = gpu0
    /\ UNCHANGED <<avars, knl>>

ExtractNext ==
    \/ AlignParticles \/ ExtractProps \/ ResultFill \/ StoreReturn

\* extract_particles on a constructed or aligned store, and what the caller
\* does with the returned store
SpecExtract == StoreInit /\ [][ExtractNext]_vars

(* ------------- remove_tagged_particles, one work-item step at a time --- *)
\* a store constructed over a host array with any tags, x at its default
KernelInit ==
    /\ \E pa \in HostArrays :
           /\ Len(pa.values["tag"]) = Len(pa.values["x"])
           /\ \A i \in 1..Len(pa.values["x"]) :
                  pa.values["x"][i] = default_values["x"]
           /\ gpu = DeviceHelper(pa)
    /\ gpu0 = gpu
    /\ scall = NoSCall
    /\ res = <<>>
    /\ arr = DeviceArray(0)
    /\ arr0 = arr
    /\ call = NoCall
    /\ ret = <<>>
    /\ knl = NoKernel

\* remove_tagged_particles(tag) up to the launch of remove_indices: the
\* reduction counts the matches; with none the call returns, else indices
\* (uninitialised, one slot per match) and head (zero) are allocated and
\* one work-item per element of tag_array is started
TaggedLaunch ==
    /\ scall.op = "init"
    /\ \E tag \in TagValues :
           LET tag_array == array(gpu.data["tag"])
               num_indices ==
                   Cardinality({i \in 1..Len(tag_array) : tag_array[i] = tag})
           IN  IF num_indices = 0
               THEN /\ scall' = SCallRec("remove_tagged_particles", <<>>, tag,
                                         NoBatch, 0, EmptyStore, "none")
                    /\ knl' = NoKernel
               ELSE /\ scall' = SCallRec("remove_indices", <<>>, tag, NoBatch,
                                         0, EmptyStore, "none")
                    /\ knl' = [tag_array |-> tag_array, tag |-> tag,
                               count |-> num_indices, head |-> 0,
                               indices |-> empty(num_indices),
                               pc |-> [i \in 1..Len(tag_array) |-> "start"],
                               slot |-> [i \in 1..Len(tag_array) |-> 0],
                               writes |-> [k \in 1..num_indices |-> 0],
                               oob |-> FALSE]
    /\ gpu' = gpu
    /\ gpu0' = gpu
    /\ res' = <<>>
    /\ UNCHANGED avars

\* a work-item whose tag does not match does nothing
WorkItemSkip ==
    /\ scall.op = "remove_indices"
    /\ \E i \in 1..Len(knl.pc) :
           /\ knl.pc[i] = "start"
           /\ knl.tag_array[i] # knl.tag
           /\ knl' = [knl EXCEPT !.pc[i] = "done"]
    /\ UNCHANGED <<avars, svars>>

\* a work-item whose tag matches takes its slot: atomic_inc(&head[0])
WorkItemInc ==
    /\ scall.op = "remove_indices"
    /\ \E i \in 1..Len(knl.pc) :
           /\ knl.pc[i] = "start"
           /\ knl.tag_array[i] = knl.tag
           /\ knl' = [knl EXCEPT !.pc[i] = "store",
                                 !.slot[i] = atomic_inc(knl.head).old,
                                 !.head = atomic_inc(knl.head).new]
    /\ UNCHANGED <<avars, svars>>

\* the work-item stores its index: indices[slot] = i
WorkItemStore ==
    /\ scall.op = "remove_indices"
    /\ \E i \in 1..Len(knl.pc) :
           /\ knl.pc[i] = "store"
           /\ knl' = IF knl.slot[i] < knl.count
                     THEN [knl EXCEPT !.pc[i] = "done",
                                      !.indices[knl.slot[i] + 1] = i - 1,
                                      !.writes[knl.slot[i] + 1] = @ + 1]
                     ELSE [knl EXCEPT !.pc[i] = "done", !.oob = TRUE]
    /\ UNCHANGED <<avars, svars>>

\* the kernel has finished: self.remove_particles(indices)
TaggedFinish ==
    /\ scall.op = "remove_indices"
    /\ \A i \in 1..Len(knl.pc) : knl.pc[i] = "done"
    /\ \E r \in remove_particles(gpu, knl.indices) :
           /\ gpu' = r.obj
           /\ scall' = SCallRec("remove_tagged_particles", knl.indices,
                                knl.tag, NoBatch, 0, EmptyStore, r.err)
    /\ gpu0' = gpu
    /\ res' = <<>>
    /\ UNCHANGED <<avars, knl>>

\* the call returns; indices and head are dropped
TaggedReturn ==
    /\ scall.op = "remove_tagged_particles"
    /\ gpu' = gpu
    /\ gpu0' = gpu
    /\ scall' = NoSCall
    /\ res' = <<>>
    /\ knl' = NoKernel
    /\ UNCHANGED avars

KernelNext ==
    \/ TaggedLaunch \/ WorkItemSkip \/ WorkItemInc \/ WorkItemStore
    \/ TaggedFinish \/ TaggedReturn

\* remove_tagged_particles with the work-items of remove_indices interleaved
SpecKernel == KernelInit /\ [][KernelNext]_vars

(* ---------------- align_particles, one work-item step at a time -------- *)
\* align_particles() up to the launch of get_num_real_particles: the
\* properties are gathered by the sorted indices, num_real_particles[0] (out)
\* is zeroed and one work-item per element of the sorted tag array is
\* started; writers collects the work-items that have stored into out
AlignLaunch ==
    /\ scall.op = "init"
    /\ LET num_particles == get_number_of_particles(gpu)
           sorted_indices == radix_sort(arange(num_particles),
                                        array(gpu.data["tag"]))
           t == store_align(gpu, sorted_indices)
       IN  /\ gpu' = t
           /\ knl' = [tag_array |-> array(t.data["tag"]), out |-> 0,
                      pc |-> [i \in 1..num_particles |-> "start"],
                      writers |-> {}]
    /\ scall' = SCallRec("get_num_real_particles", <<>>, 0, NoBatch, 0,
                         EmptyStore, "none")
    /\ gpu0' = gpu
    /\ res' = <<>>
    /\ UNCHANGED avars

\* a work-item whose condition is false does nothing
BoundarySkip ==
    /\ scall.op = "get_num_real_particles"
    /\ \E i \in 1..Len(knl.pc) :
           /\ knl.pc[i] = "start"
           /\ ~boundary_cond(knl.tag_array, i - 1)
           /\ knl' = [knl EXCEPT !.pc[i] = "done"]
    /\ UNCHANGED <<avars, svars>>

\* a work-item whose condition is true stores its id: num_real_particles[0] = i
BoundaryWrite ==
    /\ scall.op = "get_num_real_particles"
    /\ \E i \in 1..Len(knl.pc) :
           /\ knl.pc[i] = "start"
           /\ boundary_cond(knl.tag_array, i - 1)
           /\ knl' = [knl EXCEPT !.pc[i] = "done", !.out = i - 1,
                                 !.writers = @ \cup {i - 1}]
    /\ UNCHANGED <<avars, svars>>

\* the kernel has finished: self.num_real_particles = int(num_real_particles.get())
AlignFinish ==
    /\ scall.op = "get_num_real_particles"
    /\ \A i \in 1..Len(knl.pc) : knl.pc[i] = "done"
    /\ gpu' = [gpu EXCEPT !.nrp = knl.out]
    /\ scall' = SCallRec("align_particles", <<>>, 0, NoBatch, 0, EmptyStore,
                         "none")
    /\ gpu0' = gpu0
    /\ res' = <<>>
    /\ UNCHANGED <<avars, knl>>

\* the call returns; the 1-element output is dropped
AlignReturn ==
    /\ scall.op = "align_particles"
    /\ gpu' = gpu
    /\ gpu0' = gpu
    /\ scall' = NoSCall
    /\ res' = <<>>
    /\ knl' = NoKernel
    /\ UNCHANGED avars

BoundaryNext ==
    \/ AlignLaunch \/ BoundarySkip \/ BoundaryWrite \/ AlignFinish
    \/ AlignReturn

\* align_particles with the work-items of get_num_real_particles interleaved
SpecBoundary == KernelInit /\ [][BoundaryNext]_vars

(* ------------------------ DeviceArray properties ----------------------- *)
\* a with the elements at the 0-based positions of R deleted, order kept
RECURSIVE Survivors(_, _, _)
Survivors(a, R, i) ==
    IF i > Len(a) THEN <<>>
    ELSE (IF (i - 1) \in R THEN <<>> ELSE <<a[i]>>) \o Survivors(a, R, i + 1)

\* C1: remove(R), R a set of distinct indices in [0, n), leaves the original
\* sequence without the elements at the positions in R, survivors in their
\* original order, and length n - |R| (R empty and R full included).
C1_RemoveCompacts ==
    (call.op = "remove" /\ Len(call.indices) <= arr0.length) =>
        /\ call.err = "none"
        /\ arr.length = arr0.length - Cardinality(Range(call.indices))
        /\ array(arr) = Survivors(array(arr0), Range(call.indices), 1)

\* C7: extend(values) with |values| = k >= 1, on a buffer in any reachable
\* state (a freshly constructed empty one included), leaves length = old
\* length + k, the positions [old length, old length + k) equal to values in
\* order, and the positions [0, old length) unchanged.
C7_ExtendAppendsValues ==
    (call.op = "extend" /\ Len(call.values) >= 1) =>
        /\ call.err = "none"
        /\ arr.length = arr0.length + Len(call.values)
        /\ array(arr) = array(arr0) \o call.values

\* C8: append(value) succeeds in every reachable state, a buffer of length 0
\* and capacity 0 included: length grows by 1, the element at the old length
\* is value, the earlier elements are unchanged.
C8_AppendSucceeds ==
    call.op = "append" =>
        /\ call.err = "none"
        /\ arr.length = arr0.length + 1
        /\ array(arr) = array(arr0) \o call.values

\* C9: 0 <= length <= capacity holds after every DeviceArray call (append,
\* extend, resize, reserve, remove, align, copy, squeeze), for the buffer
\* and for the buffer copy() returns.
C9_LengthWithinCapacity ==
    /\ 0 <= arr.length
    /\ arr.length <= alloc(arr)
    /\ ret # <<>> => (0 <= ret.length /\ ret.length <= alloc(ret))

\* a call grew the buffer into freshly reserved capacity
C9_Witness ==
    /\ call.op \in {"append", "extend", "resize"}
    /\ call.err = "none"
    /\ alloc(arr) > alloc(arr0)
    /\ arr.length > arr0.length
    /\ arr.length = alloc(arr)

\* C10: align(idx), idx of length k with values in [0, length), repeats
\* allowed, leaves length k and element i equal to the old element idx[i].
C10_AlignGathers ==
    call.op = "align" =>
        /\ arr.length = Len(call.indices)
        /\ \A i \in 1..Len(call.indices) :
               i <= alloc(arr) /\ arr.data[i] = arr0.data[call.indices[i] + 1]

\* a gather with a repeated index that also reorders two different elements
C10_Witness ==
    /\ call.op = "align"
    /\ Len(call.indices) = 3
    /\ call.indices[1] = call.indices[3]
    /\ call.indices[1] > call.indices[2]
    /\ arr0.data[call.indices[1] + 1] # arr0.data[call.indices[2] + 1]

(* ------------------------ DeviceHelper properties ---------------------- *)
\* the logical contents of property p of store s
Prop(s, p) == array(s.data[p])

Count(a, v) == Cardinality({i \in 1..Len(a) : a[i] = v})

\* C2: after align_particles() on a store whose tags lie in 0..3, tag[i] = 0
\* for every i < num_real_particles and tag[i] # 0 for every i >=
\* num_real_particles (all tags 0: num_real_particles = n; no tag 0: 0).
C2_PartitionInvariant ==
    scall.op = "align_particles" =>
        \A i \in 0..(Len(Prop(gpu, "tag")) - 1) :
            (i < gpu.nrp) <=> (Prop(gpu, "tag")[i + 1] = 0)

\* C3: after any sequence of add_particles, remove_particles,
\* remove_tagged_particles, extend and append_parray calls, returned or
\* raised, every registered property buffer has the same length.
C3_EqualLengths ==
    \A p \in Range(gpu.properties), q \in Range(gpu.properties) :
        gpu.data[p].length = gpu.data[q].length

\* a call raised after it had already grown the store
C3_Witness ==
    /\ scall.op = "append_parray"
    /\ scall.err = "KeyError"
    /\ get_number_of_particles(gpu) > get_number_of_particles(gpu0)
    /\ get_number_of_particles(gpu0) > 0

\* C4: after remove_tagged_particles(t) has removed at least one particle, no
\* remaining particle has tag t and num_real_particles is the number of
\* remaining particles with tag 0 (tags [0,1,0,1], t = 1: two particles, both
\* tag 0, num_real_particles = 2).
C4_RemoveTagged ==
    (/\ scall.op = "remove_tagged_particles"
     /\ get_number_of_particles(gpu) < get_number_of_particles(gpu0)) =>
        /\ Count(Prop(gpu, "tag"), scall.tag) = 0
        /\ gpu.nrp = Count(Prop(gpu, "tag"), 0)

\* the last k elements of a
Tail_(a, k) == SubSeq(a, Len(a) - k + 1, Len(a))

\* C5, for a store whose particles all have tag 0 (the re-partition that ends
\* add_particles then moves no particle): add_particles with k > 0 new values
\* for x only leaves every property with length n + k, the last k entries of
\* x equal to the supplied values in order, and the last k entries of every
\* unsupplied property equal to its default.
C5_AddParticlesTail ==
    (/\ scall.op = "add_particles"
     /\ scall.props.names = <<"x">>
     /\ Len(scall.props.vals["x"]) > 0
     /\ \A i \in 1..Len(Prop(gpu0, "tag")) : Prop(gpu0, "tag")[i] = 0) =>
        LET k == Len(scall.props.vals["x"])
            n == get_number_of_particles(gpu0)
        IN  /\ scall.err = "none"
            /\ \A p \in Range(gpu.properties) : gpu.data[p].length = n + k
            /\ Tail_(Prop(gpu, "x"), k) = scall.props.vals["x"]
            /\ \A p \in {"tag", "y"} : \A i \in 1..k :
                   Tail_(Prop(gpu, p), k)[i] = default_values[p]

\* C6 as stated: extract_particles(idx), idx of length k with values in
\* [0, n), returns a store of k particles whose x at position i is
\* source.x[idx[i]] for every i.
C6_ExtractInOrder ==
    (scall.op = "extract_particles" /\ Len(scall.indices) > 0) =>
        /\ get_number_of_particles(res) = Len(scall.indices)
        /\ \A i \in 1..Len(scall.indices) :
               Prop(res, "x")[i] = Prop(gpu0, "x")[scall.indices[i] + 1]

\* pi lists the positions 1..k of idx ordered by (tag of the particle, position)
OrdersByTag(pi, idx, tag) ==
    \A i \in 1..Len(pi), j \in 1..Len(pi) :
        i < j =>
            \/ tag[idx[pi[i]] + 1] < tag[idx[pi[j]] + 1]
            \/ (tag[idx[pi[i]] + 1] = tag[idx[pi[j]] + 1] /\ pi[i] < pi[j])

\* C6 amended: extract_particles(idx) returns a store of k particles that
\* holds the particles source[idx[0]], ..., source[idx[k-1]] stably sorted by
\* tag: every property at position i has the source's value at idx[pi(i)],
\* pi ordering the positions of idx by (tag, position); so x[i] =
\* source.x[idx[i]] for every i when the tags along idx are non-decreasing.
C6_ExtractSortedByTag ==
    scall.op = "extract_particles" =>
        /\ get_number_of_particles(res) = Len(scall.indices)
        /\ Len(scall.indices) > 0 =>
             \E pi \in Orders(1..Len(scall.indices)) :
                /\ OrdersByTag(pi, scall.indices, Prop(gpu0, "tag"))
                /\ \A p \in Range(gpu0.properties) :
                       /\ Len(Prop(res, p)) = Len(scall.indices)
                       /\ \A i \in 1..Len(scall.indices) :
                              Prop(res, p)[i] =
                                  Prop(gpu0, p)[scall.indices[pi[i]] + 1]
        /\ (\A i \in 1..(Len(scall.indices) - 1) :
               Prop(gpu0, "tag")[scall.indices[i] + 1]
                   <= Prop(gpu0, "tag")[scall.indices[i + 1] + 1]) =>
             \A i \in 1..Len(scall.indices) :
                 Prop(res, "x")[i] = Prop(gpu0, "x")[scall.indices[i] + 1]

\* extract_particles([2,0]) on a 3-particle store whose particle 2 has a
\* larger tag than particle 0 and a different x
C6_Witness ==
    /\ scall.op = "extract_particles"
    /\ scall.indices = <<2, 0>>
    /\ get_number_of_particles(gpu0) = 3
    /\ Prop(gpu0, "tag")[3] > Prop(gpu0, "tag")[1]
    /\ Prop(gpu0, "x")[3] # Prop(gpu0, "x")[1]
    /\ Prop(res, "x") = <<Prop(gpu0, "x")[1], Prop(gpu0, "x")[3]>>

\* C11: align_particles() called twice in succession, with no mutation in
\* between, leaves the contents of every property buffer and
\* num_real_particles exactly as they were after the first call.
C11_AlignIdempotent ==
    scall.op = "align_particles_again" =>
        /\ gpu.nrp = gpu0.nrp
        /\ \A p \in Range(gpu.properties) : Prop(gpu, p) = Prop(gpu0, p)

\* the second call on three particles, two of them with the same tag and
\* different x, behind a real particle
C11_Witness ==
    /\ scall.op = "align_particles_again"
    /\ Prop(gpu0, "tag") = <<0, 2, 2>>
    /\ Prop(gpu0, "x") = <<1, 9, 1>>
    /\ gpu0.nrp = 1

\* C12: DeviceArray.remove and DeviceHelper.remove_particles, called with an
\* index sequence longer than the current number of elements (particles),
\* raise ValueError and modify nothing: contents, length, capacity and
\* num_real_particles are as before the call.
C12_TooManyIndicesRaises ==
    (/\ scall.op \in {"remove", "remove_particles"}
     /\ Len(scall.indices) > get_number_of_particles(gpu0)) =>
        /\ scall.err = "ValueError"
        /\ gpu = gpu0

\* remove_particles with three indices on an aligned store of two particles
C12_Witness ==
    /\ scall.op = "remove_particles"
    /\ Len(scall.indices) = 3
    /\ Prop(gpu0, "tag") = <<0, 1>>
    /\ gpu0.nrp = 1
    /\ scall.err = "ValueError"

\* C13: add_particles given a batch with at least one property name that is
\* not registered fails all-or-nothing: it raises, no buffer (not even one
\* of a registered property of the same batch) is grown or written, no
\* property is created, and num_real_particles is unchanged.
C13_UnknownNameAllOrNothing ==
    (/\ scall.op = "add_particles"
     /\ \E i \in 1..Len(scall.props.names) :
            scall.props.names[i] \notin Range(gpu0.properties)) =>
        /\ scall.err = "AttributeError"
        /\ gpu = gpu0

\* a batch with x (registered) and z (not) given to an aligned store of two
\* particles
C13_Witness ==
    /\ scall.op = "add_particles"
    /\ scall.props.names = <<"x", "z">>
    /\ get_number_of_particles(gpu0) = 2
    /\ gpu0.nrp = 1
    /\ scall.err = "AttributeError"

\* C14: append_parray(other), other holding m > 0 particles and a property p
\* that self (n particles) does not have, completes without error and
\* leaves self with a property p of length n + m whose first n entries are
\* p's default value and whose last m entries are other's values of p.
C14_AppendParrayAddsProperty ==
    (/\ scall.op = "append_parray"
     /\ get_number_of_particles(scall.other) > 0) =>
        \A p \in Range(scall.other.properties) \ Range(gpu0.properties) :
            LET n == get_number_of_particles(gpu0)
                m == get_number_of_particles(scall.other)
            IN  /\ scall.err = "none"
                /\ p \in Range(gpu.properties)
                /\ gpu.data[p].length = n + m
                /\ \A i \in 1..n : Prop(gpu, p)[i] = default_values[p]
                /\ \A i \in 1..m :
                       Prop(gpu, p)[n + i] = Prop(scall.other, p)[i]

\* the particles of store s as rows: row i holds the value of every
\* property at position i
Rows(s) ==
    [i \in 1..get_number_of_particles(s) |->
        [p \in Range(s.properties) |-> Prop(s, p)[i]]]

\* C15: for a store of n particles and any set R of distinct indices in
\* [0, n), the empty set included, remove_particles(R) leaves exactly the
\* n - |R| particles whose indices are not in R, each with all its property
\* values together; with R empty no particle is removed and the store is
\* unchanged.
C15_RemoveParticlesExact ==
    (/\ scall.op = "remove_particles"
     /\ Len(scall.indices) <= get_number_of_particles(gpu0)) =>
        LET n == get_number_of_particles(gpu0)
            R == Range(scall.indices)
        IN  /\ scall.err = "none"
            /\ get_number_of_particles(gpu) = n - Cardinality(R)
            /\ \A r \in Range(Rows(gpu0)) \cup Range(Rows(gpu)) :
                   Count(Rows(gpu), r) =
                       Cardinality({i \in 1..n :
                                       (i - 1) \notin R /\ Rows(gpu0)[i] = r})
            /\ R = {} =>
                   /\ gpu.nrp = gpu0.nrp
                   /\ \A p \in Range(gpu.properties) :
                          Prop(gpu, p) = Prop(gpu0, p)

\* C16: extend(count) with count > 0 on a store of n particles grows every
\* property by exactly count, fills the new tail with the property's
\* default, leaves the first n entries of every property in place and
\* unchanged (no re-partition) and leaves num_real_particles unchanged;
\* with count <= 0 nothing changes.
C16_ExtendFrame ==
    scall.op = "extend" =>
        LET n == get_number_of_particles(gpu0)
        IN  IF scall.count <= 0
            THEN gpu = gpu0
            ELSE /\ gpu.nrp = gpu0.nrp
                 /\ gpu.properties = gpu0.properties
                 /\ gpu.constants = gpu0.constants
                 /\ \A c \in Range(gpu0.constants) : gpu.data[c] = gpu0.data[c]
                 /\ \A p \in Range(gpu0.properties) :
                        /\ gpu.data[p].length = n + scall.count
                        /\ \A i \in 1..n : Prop(gpu, p)[i] = Prop(gpu0, p)[i]
                        /\ \A i \in (n + 1)..(n + scall.count) :
                               Prop(gpu, p)[i] = default_values[p]

\* extend(2) on an aligned store whose one particle has tag 2 and x = 9: the
\* new tag-0 particles stay behind it
C16_Witness ==
    /\ scall.op = "extend"
    /\ scall.count = 2
    /\ Prop(gpu0, "tag") = <<2>>
    /\ Prop(gpu0, "x") = <<9>>
    /\ gpu0.nrp = 0
    /\ Prop(gpu, "tag") = <<2, 0, 0>>

(* ------------------------- capacity of a buffer ------------------------ *)
\* C18 as stated: across append, extend, reserve, resize, fill, remove and
\* align the capacity never decreases from one call to the next, and a call
\* that increases it at least doubles it.
C18_CapacityMonotoneDoubling ==
    call.op \in {"append", "extend", "reserve", "resize", "fill", "remove",
                 "align"} =>
        /\ alloc(arr) >= alloc(arr0)
        /\ alloc(arr) > alloc(arr0) => alloc(arr) >= 2 * alloc(arr0)

\* C18 amended: append, extend, reserve, resize and fill never decrease the
\* capacity; when append increases it, it exactly doubles it; when reserve
\* or resize increases it, the new capacity is exactly the requested size,
\* and when extend does, exactly length + number of new values (either can
\* be less than twice the old); remove and align, when they return, leave a
\* buffer whose capacity equals its new length, which can be less than the
\* old capacity; a remove that raises leaves the capacity as it was.
C18_CapacityByOperation ==
    /\ call.op \in {"append", "extend", "reserve", "resize", "fill"} =>
           alloc(arr) >= alloc(arr0)
    /\ (call.op = "append" /\ alloc(arr) > alloc(arr0)) =>
           alloc(arr) = 2 * alloc(arr0)
    /\ (call.op \in {"reserve", "resize"} /\ alloc(arr) > alloc(arr0)) =>
           alloc(arr) = call.size
    /\ (call.op = "extend" /\ alloc(arr) > alloc(arr0)) =>
           alloc(arr) = arr0.length + Len(call.values)
    /\ (call.op \in {"remove", "align"} /\ call.err = "none") =>
           alloc(arr) = arr.length
    /\ (call.op = "remove" /\ call.err # "none") =>
           alloc(arr) = alloc(arr0)

\* an append to a full buffer of capacity 2
C18_Witness ==
    /\ call.op = "append"
    /\ call.err = "none"
    /\ arr0.length = 2
    /\ alloc(arr0) = 2
    /\ alloc(arr) = 4

\* C20: align_particles() reorders the particles by one permutation applied
\* identically to every property: the particle count and the multiset of
\* per-particle rows are unchanged, the tags end non-decreasing (tags in
\* 0..3) and particles of equal tag keep their relative order.
C20_AlignStablePermutation ==
    scall.op = "align_particles" =>
        LET n == get_number_of_particles(gpu0)
            tag0 == Prop(gpu0, "tag")
        IN  /\ get_number_of_particles(gpu) = n
            /\ \A r \in Range(Rows(gpu0)) \cup Range(Rows(gpu)) :
                   Count(Rows(gpu), r) = Count(Rows(gpu0), r)
            /\ \A i \in 1..(n - 1) :
                   Prop(gpu, "tag")[i] <= Prop(gpu, "tag")[i + 1]
            /\ \E pi \in Orders(1..n) :
                   /\ \A p \in Range(gpu0.properties) :
                          /\ Len(Prop(gpu, p)) = n
                          /\ \A i \in 1..n : Prop(gpu, p)[i] = Prop(gpu0, p)[pi[i]]
                   /\ \A i \in 1..n, j \in 1..n :
                          (i < j /\ tag0[pi[i]] = tag0[pi[j]]) => pi[i] < pi[j]

\* three particles with tags 2, 0, 2 and the two tag-2 particles told apart
\* by x: the tag-0 particle moves to the front, the other two keep their order
C20_Witness ==
    /\ scall.op = "align_particles"
    /\ Prop(gpu0, "tag") = <<2, 0, 2>>
    /\ Prop(gpu0, "x") = <<9, 1, 1>>
    /\ Prop(gpu, "tag") = <<0, 2, 2>>
    /\ Prop(gpu, "x") = <<1, 9, 1>>

\* C17: extract_particles(indices, props) never modifies the source store:
\* for every index sequence (the empty one included, which yields a store of
\* zero particles, not an error) every property and constant buffer of the
\* source, its length and the source's num_real_particles are unchanged, and
\* a later mutation of a buffer of the returned store changes no buffer of
\* the source.
C17_ExtractLeavesSource ==
    /\ scall.op \in {"extract_particles", "result_fill"} => gpu = gpu0
    /\ (scall.op = "extract_particles" /\ Len(scall.indices) = 0) =>
           /\ scall.err = "none"
           /\ get_number_of_particles(res) = 0
    /\ scall.op = "result_fill" =>
           \A name \in DOMAIN res.data : ~IsShared(res.data[name])

\* the constant c of the store extracted from an aligned two-particle source
\* has been overwritten; the source still holds c = 3
C17_Witness ==
    /\ scall.op = "result_fill"
    /\ array(res.data["c"]) = <<FillValue>>
    /\ array(gpu.data["c"]) = <<3>>
    /\ get_number_of_particles(gpu0) = 2
    /\ gpu0.nrp = 1

(* ---------------------- the remove_indices kernel ---------------------- *)
\* the 0-based indices whose tag equals the tag handed to the kernel
Matching == {i \in 0..(Len(knl.tag_array) - 1) : knl.tag_array[i + 1] = knl.tag}

\* C19: in remove_tagged_particles(tag), under every interleaving of the
\* work-items that share the counter head[0], each index whose tag equals
\* tag is written exactly once, to a slot in [0, count) that no other
\* work-item writes, so the output buffer sized by the reduction is filled
\* completely with no out-of-bounds write, and the set of particles then
\* removed is the same for every interleaving.
C19_AtomicSlots ==
    /\ scall.op \in {"remove_indices", "remove_tagged_particles"} =>
           /\ ~knl.oob
           /\ knl.head <= knl.count
           /\ \A k \in 1..knl.count : knl.writes[k] <= 1
           /\ \A i \in 1..Len(knl.pc), j \in 1..Len(knl.pc) :
                  (/\ i # j
                   /\ knl.pc[i] # "start" /\ knl.tag_array[i] = knl.tag
                   /\ knl.pc[j] # "start" /\ knl.tag_array[j] = knl.tag) =>
                      /\ knl.slot[i] # knl.slot[j]
                      /\ knl.slot[i] \in 0..(knl.count - 1)
           /\ (\A i \in 1..Len(knl.pc) : knl.pc[i] = "done") =>
                  /\ \A k \in 1..knl.count : knl.writes[k] = 1
                  /\ Range(knl.indices) = Matching
                  /\ Len(knl.indices) = Cardinality(Matching)
    /\ (scall.op = "remove_tagged_particles" /\ knl.count > 0) =>
           /\ scall.err = "none"
           /\ knl.indices \in remove_indices_knl(knl.tag_array, knl.tag)
           /\ gpu \in {r.obj : r \in remove_particles(gpu0, AscSeq(Matching))}
           /\ get_number_of_particles(gpu) =
                  get_number_of_particles(gpu0) - Cardinality(Matching)
           /\ Count(Prop(gpu, "tag"), knl.tag) = 0

\* tags 1, 0, 1 and tag 1: the work-item of particle 2 took slot 0 before
\* the work-item of particle 0 took slot 1
C19_Witness ==
    /\ scall.op = "remove_tagged_particles"
    /\ knl.tag_array = <<1, 0, 1>>
    /\ knl.tag = 1
    /\ knl.indices = <<2, 0>>
    /\ Prop(gpu, "tag") = <<0>>

(* ------------------ the get_num_real_particles kernel ------------------ *)
\* C21: in the boundary-detection pass of align_particles, for tags in
\* 0..3, at most one work-item writes the 1-element num_real_particles
\* output, so the value stored in num_real_particles is the same under
\* every execution order of the work-items.
C21_SingleBoundaryWriter ==
    /\ scall.op = "get_num_real_particles" =>
           /\ Cardinality(knl.writers) <= 1
           /\ Cardinality({i \in 0..(Len(knl.tag_array) - 1) :
                               boundary_cond(knl.tag_array, i)}) <= 1
           /\ \A i \in 1..(Len(knl.tag_array) - 1) :
                  knl.tag_array[i] <= knl.tag_array[i + 1]
    /\ (scall.op = "align_particles" /\ knl # NoKernel) =>
           /\ Cardinality(knl.writers) <= 1
           /\ gpu.nrp = knl.out
           /\ gpu.nrp = IF knl.writers = {} THEN 0
                         ELSE CHOOSE i \in knl.writers : TRUE
           /\ align_particles(gpu0) = {gpu}

\* tags 1, 0, 2 sorted to 0, 1, 2: one work-item, the one right behind the
\* tag-0 particle, has written
C21_Witness ==
    /\ scall.op = "align_particles"
    /\ knl # NoKernel
    /\ Prop(gpu0, "tag") = <<1, 0, 2>>
    /\ knl.tag_array = <<0, 1, 2>>
    /\ knl.writers = {1}
    /\ gpu.nrp = 1

====
